---- MODULE Spec2Model ----
(***************************************************************************)
(* Model of parseZipAsTree: reconstruction of a directory tree from the    *)
(* flat entry list of an archive, followed by the per-directory sort and   *)
(* size roll-up.                                                           *)
(*                                                                         *)
(* Strings are sequences of one-character strings, so that split, join and *)
(* basename are computed rather than assumed.  Objects live in an arena    *)
(* (nodes); an object reference is its index in the arena.  A property an  *)
(* object does not have is a field its record does not have.  A plain      *)
(* object used as a map (fileMap, folderMap) keeps its keys in insertion   *)
(* order: none of the keys used here is an integer index.                  *)
(***************************************************************************)
EXTENDS Integers, Sequences, FiniteSets, TLC

\* ------------------------------------------------------------- bounds
MaxEntries == 3
MaxSize == 2

\* ------------------------------------------------------------ strings
Slash == <<"/">>

CharRank(c) == IF c = "/" THEN 0 ELSE IF c = "a" THEN 1 ELSE IF c = "b" THEN 2 ELSE 3

Sign(x) == IF x < 0 THEN -1 ELSE IF x > 0 THEN 1 ELSE 0

RECURSIVE localeCompare(_, _)
localeCompare(x, y) ==
    IF Len(x) = 0 /\ Len(y) = 0 THEN 0
    ELSE IF Len(x) = 0 THEN -1
    ELSE IF Len(y) = 0 THEN 1
    ELSE IF x[1] # y[1] THEN Sign(CharRank(x[1]) - CharRank(y[1]))
    ELSE localeCompare(Tail(x), Tail(y))

RECURSIVE split(_)
split(s) ==
    IF \A k \in 1..Len(s) : s[k] # "/" THEN <<s>>
    ELSE LET k == CHOOSE k \in 1..Len(s) : s[k] = "/" /\ \A j \in 1..(k - 1) : s[j] # "/"
         IN  <<SubSeq(s, 1, k - 1)>> \o split(SubSeq(s, k + 1, Len(s)))

pop(arr) == SubSeq(arr, 1, Len(arr) - 1)

RECURSIVE join(_)
join(arr) ==
    IF Len(arr) = 0 THEN <<>>
    ELSE IF Len(arr) = 1 THEN arr[1]
    ELSE arr[1] \o Slash \o join(Tail(arr))

RECURSIVE stripTrailingSlashes(_)
stripTrailingSlashes(p) ==
    IF Len(p) > 0 /\ p[Len(p)] = "/" THEN stripTrailingSlashes(pop(p)) ELSE p

basename(p) ==
    LET segs == split(stripTrailingSlashes(p)) IN segs[Len(segs)]

\* ----------------------------------------------------- size formatting
Units == <<"B", "kB", "MB", "GB">>

RECURSIVE Pow1000(_)
Pow1000(e) == IF e = 0 THEN 1 ELSE 1000 * Pow1000(e - 1)

RECURSIVE exponentOf(_, _)
exponentOf(n, e) ==
    IF e < Len(Units) - 1 /\ n >= Pow1000(e + 1) THEN exponentOf(n, e + 1) ELSE e

RECURSIVE trimZeros(_, _)
trimZeros(digits, decimals) ==
    IF decimals > 0 /\ digits % 10 = 0 THEN trimZeros(digits \div 10, decimals - 1)
    ELSE <<digits, decimals>>

\* the byte count scaled to its unit and kept to three significant digits:
\* digits / 10^decimals, followed by the unit
prettyBytes(n) ==
    LET e == exponentOf(n, 0)
        u == Pow1000(e)
        decimals == IF e = 0 THEN 0
                    ELSE IF n < 10 * u THEN 2
                    ELSE IF n < 100 * u THEN 1 ELSE 0
        scale == IF decimals = 2 THEN 100 ELSE IF decimals = 1 THEN 10 ELSE 1
        digits == (2 * n * scale + u) \div (2 * u)
        t == trimZeros(digits, decimals)
    IN  [digits |-> t[1], decimals |-> t[2], unit |-> Units[e + 1]]

\* ---------------------------------------------------------------- input
FilePaths == { <<"a">>, <<"b">>,
               <<"a", "/", "a">>, <<"a", "/", "b">>,
               <<"a", "/", "b", "/", "a">>,
               <<"a", "/", "b", "/", "a", "/", "b">> }

DirPaths == { <<"a", "/">>, <<"/">> }

Headers == { [size |-> s, compressedSize |-> s - 1] : s \in 1..MaxSize }

\* the records the archive reader hands over: a path ending in a separator is
\* a directory record, name is the final path segment
ZipEntry(path, header) ==
    [ isDirectory |-> (Len(path) > 0 /\ path[Len(path)] = "/"),
      name        |-> basename(path),
      entryName   |-> path,
      header      |-> header ]

ZipEntries ==
    { ZipEntry(p, h) : p \in FilePaths, h \in Headers }
      \cup { ZipEntry(p, [size |-> 0, compressedSize |-> 0]) : p \in DirPaths }

\* ---------------------------------------------------------------- state
VARIABLES zipEntries, nodes, files, fileMap, folderMap, entrys, i, pc

vars == <<zipEntries, nodes, files, fileMap, folderMap, entrys, i, pc>>

EmptyMap == [k \in {} |-> 0]

put(map, key, value) == (key :> value) @@ map

\* folderMap is a sequence of [key, node] in insertion order
folderKeys(fm) == { fm[k].key : k \in 1..Len(fm) }

folderGet(fm, key) == (CHOOSE k \in 1..Len(fm) : fm[k].key = key)

St == [nodes |-> nodes, files |-> files, fileMap |-> fileMap, folderMap |-> folderMap]

EmptyTree == [nodes |-> <<>>, files |-> <<>>, fileMap |-> EmptyMap, folderMap |-> <<>>]

\* the object one iteration works on: the record itself for a directory,
\* a fresh object carrying the raw and the formatted sizes for a file
entryOf(origin) ==
    IF origin.isDirectory THEN origin
    ELSE [ isDirectory            |-> origin.isDirectory,
           name                   |-> origin.name,
           entryName              |-> origin.entryName,
           header                 |-> origin.header,
           originFileSize         |-> origin.header.size,
           originCompressedSize   |-> origin.header.compressedSize,
           fileSize               |-> prettyBytes(origin.header.size),
           compressedSize         |-> prettyBytes(origin.header.compressedSize) ]

\* one iteration of the loop of parseFlatItems, for the object at index id
parseFlatItem(t, id) ==
    LET entry == t.nodes[id]
        paths == pop(split(entry.entryName))
    IN  IF Len(paths) = 0
        THEN [t EXCEPT !.files = Append(@, id),
                       !.fileMap = IF ~entry.isDirectory
                                   THEN put(@, entry.entryName, id) ELSE @]
        ELSE LET parentPath == join(paths) IN
             IF parentPath \in folderKeys(t.folderMap)
             THEN LET parent == t.folderMap[folderGet(t.folderMap, parentPath)].node IN
                  [t EXCEPT !.nodes[parent].children = Append(@, id),
                            !.fileMap = IF ~entry.isDirectory
                                        THEN put(@, entry.entryName, id) ELSE @]
             ELSE LET folder == [ isDirectory |-> TRUE,
                                  children    |-> <<id>>,
                                  entryName   |-> parentPath,
                                  name        |-> basename(parentPath) ]
                  IN  [t EXCEPT !.nodes = Append(@, folder),
                                !.folderMap = Append(@, [key |-> parentPath,
                                                         node |-> Len(t.nodes) + 1])]

\* first call: the archive's records, each turned into its object first
parseOrigin(t, origin) ==
    LET t1 == [t EXCEPT !.nodes = Append(@, entryOf(origin))]
    IN  parseFlatItem(t1, Len(t1.nodes))

\* Object.keys(folderMap).map(k => folderMap[k]), taken before the second call
folderValues(fm) == [k \in 1..Len(fm) |-> fm[k].node]

\* ------------------------------------------------------ sort and roll-up
\* comparator with the directory rule left out
sortFilesByNameOnly(a, b) == localeCompare(a.name, b.name)

sortFiles(a, b) ==
    IF a.isDirectory /\ b.isDirectory THEN localeCompare(a.name, b.name)
    ELSE IF a.isDirectory THEN -1
    ELSE IF b.isDirectory THEN 1
    ELSE localeCompare(a.name, b.name)

\* place x before the first element it compares below
RECURSIVE insertSorted(_, _, _)
insertSorted(ns, sorted, x) ==
    IF Len(sorted) = 0 THEN <<x>>
    ELSE IF sortFiles(ns[x], ns[sorted[1]]) < 0 THEN <<x>> \o sorted
    ELSE <<sorted[1]>> \o insertSorted(ns, Tail(sorted), x)

\* a sort that places x before the first element it does not compare above,
\* so that elements comparing equal swap places
RECURSIVE insertUnstable(_, _, _)
insertUnstable(ns, sorted, x) ==
    IF Len(sorted) = 0 THEN <<x>>
    ELSE IF sortFiles(ns[x], ns[sorted[1]]) <= 0 THEN <<x>> \o sorted
    ELSE <<sorted[1]>> \o insertUnstable(ns, Tail(sorted), x)

RECURSIVE sortUnstable(_, _)
sortUnstable(ns, arr) ==
    IF Len(arr) = 0 THEN <<>>
    ELSE insertUnstable(ns, sortUnstable(ns, pop(arr)), arr[Len(arr)])

\* Array.prototype.sort with sortFiles: a stable sort
RECURSIVE sort(_, _)
sort(ns, arr) ==
    IF Len(arr) = 0 THEN <<>>
    ELSE insertSorted(ns, sort(ns, pop(arr)), arr[Len(arr)])

valueOf(item, prop) == IF prop \in DOMAIN item THEN item[prop] ELSE 0

\* a roll-up that does not descend into child directories
RECURSIVE sumOwn(_, _, _)
sumOwn(ns, array, prop) ==
    IF Len(array) = 0 THEN 0
    ELSE sumOwn(ns, pop(array), prop) + valueOf(ns[array[Len(array)]], prop)

RECURSIVE sum(_, _, _)
sum(ns, array, prop) ==
    IF Len(array) = 0 THEN 0
    ELSE LET item == ns[array[Len(array)]]
             value == valueOf(item, prop)
             childSize == IF "children" \in DOMAIN item
                          THEN sum(ns, item.children, prop) ELSE 0
         IN  sum(ns, pop(array), prop) + value + childSize

\* the body of the loop over folderMap, for the k-th key
RECURSIVE sortAndSum(_, _, _)
sortAndSum(ns, fm, k) ==
    IF k > Len(fm) THEN ns
    ELSE LET id == fm[k].node
             children == sort(ns, ns[id].children)
             ns1 == [ns EXCEPT ![id].children = children]
             sized == [ fileSize       |-> prettyBytes(sum(ns1, children, "originFileSize")),
                        compressedSize |-> prettyBytes(sum(ns1, children, "originCompressedSize")) ]
         IN  sortAndSum([ns1 EXCEPT ![id] = sized @@ @], fm, k + 1)

\* the loop over folderMap and the sort of the roots
finalize(t) ==
    LET ns == sortAndSum(t.nodes, t.folderMap, 1)
    IN  [t EXCEPT !.nodes = ns, !.files = sort(ns, t.files)]

\* ---------------------------------------------------------------- steps
Init ==
    /\ zipEntries \in UNION { [1..n -> ZipEntries] : n \in 0..MaxEntries }
    /\ nodes = <<>>
    /\ files = <<>>
    /\ fileMap = EmptyMap
    /\ folderMap = <<>>
    /\ entrys = <<>>
    /\ i = 1
    /\ pc = "parseEntries"

Update(t) ==
    /\ nodes' = t.nodes
    /\ files' = t.files
    /\ fileMap' = t.fileMap
    /\ folderMap' = t.folderMap

\* parseFlatItems(zipEntries): one iteration
ParseEntry ==
    /\ pc = "parseEntries"
    /\ i <= Len(zipEntries)
    /\ Update(parseOrigin(St, zipEntries[i]))
    /\ i' = i + 1
    /\ UNCHANGED <<zipEntries, entrys, pc>>

\* the argument of the second call is evaluated once the first call returns
CollectFolders ==
    /\ pc = "parseEntries"
    /\ i > Len(zipEntries)
    /\ entrys' = folderValues(folderMap)
    /\ i' = 1
    /\ pc' = "parseFolders"
    /\ UNCHANGED <<zipEntries, nodes, files, fileMap, folderMap>>

\* parseFlatItems(folders): one iteration
ParseFolder ==
    /\ pc = "parseFolders"
    /\ i <= Len(entrys)
    /\ Update(parseFlatItem(St, entrys[i]))
    /\ i' = i + 1
    /\ UNCHANGED <<zipEntries, entrys, pc>>

Finalize ==
    /\ pc = "parseFolders"
    /\ i > Len(entrys)
    /\ Update(finalize(St))
    /\ pc' = "done"
    /\ UNCHANGED <<zipEntries, entrys, i>>

\* the sort and the roll-up applied to the tree they produced
FinalizeAgain ==
    /\ pc = "done"
    /\ Update(finalize(St))
    /\ pc' = "again"
    /\ UNCHANGED <<zipEntries, entrys, i>>

Next == ParseEntry \/ CollectFolders \/ ParseFolder \/ Finalize \/ FinalizeAgain

Spec == Init /\ [][Next]_vars

\* the whole function, for one input sequence
RECURSIVE parseOrigins(_, _, _)
parseOrigins(t, origins, k) ==
    IF k > Len(origins) THEN t ELSE parseOrigins(parseOrigin(t, origins[k]), origins, k + 1)

RECURSIVE parseFlatItems(_, _, _)
parseFlatItems(t, ids, k) ==
    IF k > Len(ids) THEN t ELSE parseFlatItems(parseFlatItem(t, ids[k]), ids, k + 1)

parseZipAsTree(origins) ==
    LET first == parseOrigins(EmptyTree, origins, 1)
        second == parseFlatItems(first, folderValues(first.folderMap), 1)
    IN  finalize(second)

Built == pc \in {"done", "again"}

TypeOK ==
    /\ pc \in {"parseEntries", "parseFolders", "done", "again"}
    /\ \A k \in 1..Len(files) : files[k] \in 1..Len(nodes)
    /\ \A key \in DOMAIN fileMap : fileMap[key] \in 1..Len(nodes)
    /\ \A k \in 1..Len(folderMap) : folderMap[k].node \in 1..Len(nodes)

\* the code's steps agree with the whole function
StepsAgree == Built => St = parseZipAsTree(zipEntries)

\* ------------------------------------------------------------ vocabulary
elements(arr) == { arr[k] : k \in 1..Len(arr) }

indexOf(arr, x) == CHOOSE k \in 1..Len(arr) : arr[k] = x

\* the path a directory is looked up by: trailing separators stripped
logicalPath(p) == stripTrailingSlashes(p)

\* the non-empty prefixes of a path that end just before a separator
properPrefixes(p) ==
    LET q == logicalPath(p)
    IN  { SubSeq(q, 1, k - 1) : k \in { j \in 2..Len(q) : q[j] = "/" } }

folderNode(key) == folderMap[folderGet(folderMap, key)].node

folderIds == { folderMap[k].node : k \in 1..Len(folderMap) }

childrenOf(ns, id) == IF "children" \in DOMAIN ns[id] THEN elements(ns[id].children) ELSE {}

\* every node reachable from the nodes of S through children, S included
RECURSIVE reach(_, _)
reach(ns, S) ==
    LET S2 == S \cup UNION { childrenOf(ns, id) : id \in S }
    IN  IF S2 = S THEN S ELSE reach(ns, S2)

fileNodesUnder(ns, id) == { f \in reach(ns, childrenOf(ns, id)) : ~ns[f].isDirectory }

RECURSIVE total(_, _, _)
total(ns, S, field) ==
    IF S = {} THEN 0
    ELSE LET x == CHOOSE x \in S : TRUE
         IN  ns[x].header[field] + total(ns, S \ {x}, field)

fileEntries == { k \in 1..Len(zipEntries) : ~zipEntries[k].isDirectory }

ordered(ns, arr) ==
    \A x, y \in 1..Len(arr) :
        x < y =>
            LET a == ns[arr[x]]
                b == ns[arr[y]]
            IN  /\ ~(~a.isDirectory /\ b.isDirectory)
                /\ (a.isDirectory = b.isDirectory => localeCompare(a.name, b.name) <= 0)

\* new holds the elements of old, those of equal name and kind in old's order
keepsOrder(ns, old, new) ==
    /\ Len(new) = Len(old)
    /\ elements(new) = elements(old)
    /\ \A x, y \in 1..Len(new) :
          (/\ x < y
           /\ ns[new[x]].isDirectory = ns[new[y]].isDirectory
           /\ ns[new[x]].name = ns[new[y]].name)
            => indexOf(old, new[x]) < indexOf(old, new[y])

Perms(n) == { p \in [1..n -> 1..n] : \A x, y \in 1..n : p[x] = p[y] => x = y }

tag(ns, id) == <<ns[id].isDirectory, ns[id].entryName, ns[id].name>>

tags(ns, arr) == [k \in 1..Len(arr) |-> tag(ns, arr[k])]

\* a tree up to the identity of its objects
Shape(t) ==
    [ fileKeys   |-> DOMAIN t.fileMap,
      folderKeys |-> folderKeys(t.folderMap),
      roots      |-> tags(t.nodes, t.files),
      folders    |-> { [ key            |-> t.folderMap[k].key,
                         fileSize       |-> t.nodes[t.folderMap[k].node].fileSize,
                         compressedSize |-> t.nodes[t.folderMap[k].node].compressedSize,
                         children       |-> tags(t.nodes, t.nodes[t.folderMap[k].node].children) ]
                       : k \in 1..Len(t.folderMap) } ]

\* ---------------------------------------------------------------- claims

\* C1: after the build every proper slash-delimited prefix of every entry's
\* path, and so of every key of fileMap, is a key of folderMap.
PrefixClosed ==
    Built =>
        /\ \A k \in 1..Len(zipEntries) :
              properPrefixes(zipEntries[k].entryName) \subseteq folderKeys(folderMap)
        /\ \A key \in DOMAIN fileMap : properPrefixes(key) \subseteq folderKeys(folderMap)

\* C2: after the build every file entry of the input is in fileMap under its
\* full path, and fileMap has as many keys as there are distinct file paths.
FilesIndexed ==
    Built =>
        /\ \A k \in fileEntries :
              /\ zipEntries[k].entryName \in DOMAIN fileMap
              /\ nodes[fileMap[zipEntries[k].entryName]].entryName = zipEntries[k].entryName
        /\ Cardinality(DOMAIN fileMap)
              = Cardinality({ zipEntries[k].entryName : k \in fileEntries })

\* C3: every permutation of the input yields a structurally identical tree:
\* same fileMap keys, same folderMap keys, same aggregates, same orderings.
OrderIndependent ==
    Built =>
        \A p \in Perms(Len(zipEntries)) :
            Shape(parseZipAsTree([k \in 1..Len(zipEntries) |-> zipEntries[p[k]]])) = Shape(St)

\* C4: after the sort-and-sum loop, the size recorded on every directory of
\* folderMap is the formatted sum of the raw sizes of the file nodes reachable
\* from it through children, and likewise for the compressed sizes.
SumLaw ==
    Built =>
        \A id \in folderIds :
            /\ nodes[id].fileSize
                  = prettyBytes(total(nodes, fileNodesUnder(nodes, id), "size"))
            /\ nodes[id].compressedSize
                  = prettyBytes(total(nodes, fileNodesUnder(nodes, id), "compressedSize"))

SumLawWitness ==
    /\ Built
    /\ \E id \in folderIds :
          /\ \E c \in childrenOf(nodes, id) : ~nodes[c].isDirectory
          /\ \E c \in childrenOf(nodes, id) :
                /\ c \in folderIds
                /\ \E f \in childrenOf(nodes, c) : ~nodes[f].isDirectory
          /\ Cardinality(fileNodesUnder(nodes, id)) >= 2
          /\ nodes[id].fileSize = prettyBytes(3)
          /\ nodes[id].compressedSize = prettyBytes(1)

\* C5: the sort leaves roots and every directory's children with no file
\* before a directory and with names non-decreasing within the directories
\* and within the files; nodes of equal name keep their insertion order.
OrderingLaw ==
    [][ pc' \in {"done", "again"} =>
          /\ ordered(nodes', files')
          /\ keepsOrder(nodes, files, files')
          /\ \A id \in folderIds :
                /\ ordered(nodes', nodes'[id].children)
                /\ keepsOrder(nodes, nodes[id].children, nodes'[id].children) ]_vars

OrderingLawWitness ==
    /\ Built
    /\ \E id \in folderIds :
          \E x, y, z \in 1..Len(nodes[id].children) :
              /\ x < y /\ y < z
              /\ nodes[nodes[id].children[x]].isDirectory
              /\ ~nodes[nodes[id].children[y]].isDirectory
              /\ nodes[id].children[x] > nodes[id].children[z]
              /\ nodes[nodes[id].children[y]].name = nodes[nodes[id].children[z]].name

\* C6: an explicit directory entry d with files beneath it is the node
\* folderMap holds for d, d is one directory node only, and the size
\* recorded for d is the total raw size of the files beneath it.
ExplicitWins ==
    Built =>
        \A k \in 1..Len(zipEntries) :
            LET d == logicalPath(zipEntries[k].entryName)
                beneath == { j \in fileEntries : d \in properPrefixes(zipEntries[j].entryName) }
            IN  (zipEntries[k].isDirectory /\ beneath # {}) =>
                    /\ d \in folderKeys(folderMap)
                    /\ "header" \in DOMAIN nodes[folderNode(d)]
                    /\ Cardinality({ id \in 1..Len(nodes) :
                                        /\ nodes[id].isDirectory
                                        /\ logicalPath(nodes[id].entryName) = d }) = 1
                    /\ nodes[folderNode(d)].fileSize
                          = prettyBytes(total(nodes, { n \in 1..Len(nodes) :
                                                          /\ ~nodes[n].isDirectory
                                                          /\ d \in properPrefixes(nodes[n].entryName) },
                                              "size"))

\* C7: after the build the keys of fileMap and the keys of folderMap are
\* disjoint: a file whose path is also a directory path is dropped.
IndexesDisjoint ==
    Built => DOMAIN fileMap \cap folderKeys(folderMap) = {}

\* C8: an entry whose path is empty or only a separator is skipped: no root
\* has an empty name and the empty string is a key of neither map.
RootMarkerSkipped ==
    Built =>
        /\ \A k \in 1..Len(files) : nodes[files[k]].name # <<>>
        /\ <<>> \notin DOMAIN fileMap
        /\ <<>> \notin folderKeys(folderMap)

\* C9: applying the sort and the roll-up to a finalized tree changes no
\* directory's sizes, no children ordering and not the roots ordering.
FinalizeIdempotent ==
    [][ pc = "done" => (nodes' = nodes /\ files' = files) ]_vars

FinalizeIdempotentWitness ==
    /\ pc = "again"
    /\ Len(files) >= 2
    /\ \E id \in folderIds :
          /\ Len(nodes[id].children) >= 2
          /\ \E c \in childrenOf(nodes, id) : c \in folderIds
          /\ nodes[id].fileSize # prettyBytes(0)

\* C10: after the build every directory of folderMap without a parent
\* segment is in roots and every other one is a child of the folderMap node
\* of its parent path.
AllParented ==
    Built =>
        \A k \in 1..Len(folderMap) :
            LET key == folderMap[k].key
                id == folderMap[k].node
                slashes == { j \in 1..Len(key) : key[j] = "/" }
            IN  IF slashes = {} THEN id \in elements(files)
                ELSE LET parentPath == SubSeq(key, 1, (CHOOSE j \in slashes : \A m \in slashes : m <= j) - 1)
                     IN  /\ parentPath \in folderKeys(folderMap)
                         /\ id \in childrenOf(nodes, folderNode(parentPath))

====
